---- MODULE Spec2Model ----
(***************************************************************************)
(* The 8-node hexahedral element kernel of NimbleSM (nimble_element.h).    *)
(*                                                                         *)
(* A double is modelled by an exact element of the field Q(sqrt 3): the    *)
(* Gauss points of the 2x2x2 rule sit at +-1/sqrt(3), so every quantity    *)
(* the kernel computes from rational (or Q(sqrt 3)) node data stays in     *)
(* that field.  The triple <<p, q, d>> with d > 0 and gcd(p, q, d) = 1     *)
(* stands for (p + q*sqrt(3)) / d; the representation is canonical, so     *)
(* equality of triples is equality of numbers.  A triple with d = 0 is an  *)
(* IEEE special value (NaN, +Inf, -Inf) produced by a division by zero.    *)
(* Rounding is not modelled.                                               *)
(***************************************************************************)
EXTENDS Integers, Sequences, FiniteSets, TLC

VARIABLES
  int_pts_,          \* HexElement::int_pts_        (natural coordinates)
  int_wts_,          \* HexElement::int_wts_        (quadrature weights)
  shape_fcn_vals_,   \* HexElement::shape_fcn_vals_ [int_pt * 8 + node]
  shape_fcn_deriv_,  \* HexElement::shape_fcn_deriv_[24 * int_pt + 3 * node + k]
  pc,                \* "idle" or "returned": position of the sequential driver
  call,              \* the operation in progress and its explicit inputs
  pre,               \* the caller's output buffers as they were before the call
  out,               \* the caller's output buffers, status and locals after it
  threads,           \* concurrent driver: per call, its position, inputs, buffer
  locals,            \* concurrent driver: the storage of each call's locals
  contact            \* contact manager: calls made, calls forwarded, force buffers

tables == <<int_pts_, int_wts_, shape_fcn_vals_, shape_fcn_deriv_>>
vars == <<int_pts_, int_wts_, shape_fcn_vals_, shape_fcn_deriv_,
          pc, call, pre, out, threads, locals, contact>>

(***************************************************************************)
(* Bounds of the model.                                                    *)
(***************************************************************************)
MaxScale == 2
MaxDensity == 2
NumThreads == 2
MaxCalls == 2
MaxStep == 1

(***************************************************************************)
(* Topology constants.                                                     *)
(***************************************************************************)
dim_ == 3
num_nodes_ == 8
num_int_pts_ == 8

K_S_XX_ == 0
K_S_YY_ == 1
K_S_ZZ_ == 2
K_S_XY_ == 3
K_S_YZ_ == 4
K_S_ZX_ == 5
K_S_YX_ == 3
K_S_ZY_ == 4
K_S_XZ_ == 5

\* variant: the YX entry shares the slot of the symmetric order
K_F_YX_Aliased == K_S_YX_

K_F_XX_ == 0
K_F_YY_ == 1
K_F_ZZ_ == 2
K_F_XY_ == 3
K_F_YZ_ == 4
K_F_ZX_ == 5
K_F_YX_ == 6
K_F_ZY_ == 7
K_F_XZ_ == 8

(***************************************************************************)
(* Arithmetic of doubles, as exact arithmetic in Q(sqrt 3).                *)
(***************************************************************************)
RECURSIVE GCD(_, _)
GCD(a, b) == IF b = 0 THEN a ELSE GCD(b, a % b)

AbsInt(n) == IF n < 0 THEN -n ELSE n

GCD3(p, q, d) == GCD(GCD(AbsInt(p), AbsInt(q)), AbsInt(d))

Reduce(p, q, d, g) ==
  IF d < 0 THEN <<(-p) \div g, (-q) \div g, (-d) \div g>>
  ELSE <<p \div g, q \div g, d \div g>>

\* the value (p + q*sqrt(3)) / d in lowest terms, d > 0
Mk(p, q, d) == Reduce(p, q, d, GCD3(p, q, d))

I(n) == <<n, 0, 1>>
Zero == <<0, 0, 1>>
One == <<1, 0, 1>>
NaN == <<0, 0, 0>>
PosInf == <<1, 0, 0>>
NegInf == <<-1, 0, 0>>

IsFinite(x) == x[3] # 0
IsZero(x) == x[1] = 0 /\ x[2] = 0 /\ x[3] # 0

\* x + y over the least common denominator, g the gcd of the denominators
RAddOver(x, y, g) ==
  Mk(x[1] * (y[3] \div g) + y[1] * (x[3] \div g),
     x[2] * (y[3] \div g) + y[2] * (x[3] \div g),
     (x[3] \div g) * y[3])

RAdd(x, y) ==
  IF x = Zero THEN y
  ELSE IF y = Zero THEN x
  ELSE IF x[3] = y[3] THEN Mk(x[1] + y[1], x[2] + y[2], x[3])
  ELSE RAddOver(x, y, GCD(x[3], y[3]))

RNeg(x) == <<-x[1], -x[2], x[3]>>

RSub(x, y) == RAdd(x, RNeg(y))

RMul(x, y) ==
  IF x = Zero \/ y = Zero THEN Zero
  ELSE Mk(x[1] * y[1] + 3 * x[2] * y[2], x[1] * y[2] + x[2] * y[1], x[3] * y[3])

RECURSIVE SignPos(_, _)
\* sign of p - q*sqrt(3) for p, q > 0, by the continued fraction of sqrt(3):
\* with r = p - q in (0, q), p > q*sqrt(3) iff (2q - r) < r*sqrt(3)
SignPos(p, q) ==
  IF p >= 2 * q THEN 1
  ELSE IF p <= q THEN -1
  ELSE -SignPos(2 * q - (p - q), p - q)

\* sign of p + q*sqrt(3), decided in the integers
SignPQ(p, q) ==
  IF p = 0 /\ q = 0 THEN 0
  ELSE IF p >= 0 /\ q >= 0 THEN 1
  ELSE IF p <= 0 /\ q <= 0 THEN -1
  ELSE IF p > 0 THEN SignPos(p, -q)
  ELSE -SignPos(-p, q)

RSign(x) == SignPQ(x[1], x[2])

\* x / y of two doubles: a zero divisor gives NaN or an infinity (IEEE 754)
RDiv(x, y) ==
  IF y = Zero
    THEN (IF x = Zero THEN NaN ELSE IF RSign(x) > 0 THEN PosInf ELSE NegInf)
    ELSE RMul(x, Mk(y[1] * y[3], -(y[2] * y[3]), y[1] * y[1] - 3 * y[2] * y[2]))

RAbs(x) == IF RSign(x) < 0 THEN RNeg(x) ELSE x
RLeq(x, y) == RSign(RSub(y, x)) >= 0
RLess(x, y) == RSign(RSub(y, x)) > 0

\* C arrays holding f[0], ..., f[n-1], built element by element
Array3(f) == (0 :> f[0]) @@ (1 :> f[1]) @@ (2 :> f[2])
Array6(f) == Array3(f) @@ ((3 :> f[3]) @@ (4 :> f[4]) @@ (5 :> f[5]))
Array8(f) ==
  (((0 :> f[0]) @@ (1 :> f[1])) @@ ((2 :> f[2]) @@ (3 :> f[3])))
    @@ (((4 :> f[4]) @@ (5 :> f[5])) @@ ((6 :> f[6]) @@ (7 :> f[7])))
Array9(f) == Array8(f) @@ (8 :> f[8])

Array(f, n) ==
  CASE n = 1 -> (0 :> f[0])
    [] n = 3 -> Array3(f)
    [] n = 6 -> Array6(f)
    [] n = 8 -> Array8(f)
    [] n = 9 -> Array9(f)

\* C arrays of rows
Array3x3(f) == Array3([i \in 0..2 |-> Array3(f[i])])
Array8x3(f) == Array8([i \in 0..7 |-> Array3(f[i])])
Array8x8(f) == Array8([i \in 0..7 |-> Array8(f[i])])
Array8xN(f, n) == Array8([i \in 0..7 |-> Array(f[i], n)])

\* f[0] + f[1] + ... + f[7]; the additions are exact, hence associative, and
\* are grouped pairwise
RSum8(f) ==
  RAdd(RAdd(RAdd(f[0], f[1]), RAdd(f[2], f[3])),
       RAdd(RAdd(f[4], f[5]), RAdd(f[6], f[7])))

(***************************************************************************)
(* Quadrature rule and shape-function tables (HexElement constructor).     *)
(***************************************************************************)
\* natural-coordinate signs of the 8 nodes (and of the 8 Gauss points)
NodeSign ==
  [n \in 0..7 |->
     CASE n = 0 -> <<-1, -1, -1>>
       [] n = 1 -> << 1, -1, -1>>
       [] n = 2 -> << 1,  1, -1>>
       [] n = 3 -> <<-1,  1, -1>>
       [] n = 4 -> <<-1, -1,  1>>
       [] n = 5 -> << 1, -1,  1>>
       [] n = 6 -> << 1,  1,  1>>
       [] n = 7 -> <<-1,  1,  1>>]

\* 1/sqrt(3) = sqrt(3)/3
GaussVal == <<0, 1, 3>>

\* N_n(xi) = 1/8 (1 + r_n r)(1 + s_n s)(1 + t_n t)
ShapeFunctionValues(natural_coords) ==
  [n \in 0..7 |->
     RMul(<<1, 0, 8>>,
       RMul(RAdd(One, RMul(I(NodeSign[n][1]), natural_coords[1])),
         RMul(RAdd(One, RMul(I(NodeSign[n][2]), natural_coords[2])),
              RAdd(One, RMul(I(NodeSign[n][3]), natural_coords[3])))))]

\* dN_n/dr, dN_n/ds, dN_n/dt at xi, node-major, natural-coordinate-minor
ShapeFunctionDerivatives(natural_coords) ==
  [i \in 0..23 |->
     LET n == i \div 3
         k == i % 3
         fac(m) == IF m = k THEN I(NodeSign[n][m + 1])
                   ELSE RAdd(One, RMul(I(NodeSign[n][m + 1]), natural_coords[m + 1]))
     IN  RMul(<<1, 0, 8>>, RMul(fac(0), RMul(fac(1), fac(2))))]

HexElement ==
  LET pts == [i \in 0..23 |-> RMul(I(NodeSign[i \div 3][(i % 3) + 1]), GaussVal)]
      at(p) == <<pts[3 * p], pts[3 * p + 1], pts[3 * p + 2]>>
  IN  [int_pts |-> pts,
       int_wts |-> [p \in 0..7 |-> One],
       shape_fcn_vals |-> [i \in 0..63 |-> ShapeFunctionValues(at(i \div 8))[i % 8]],
       shape_fcn_deriv |-> [i \in 0..191 |-> ShapeFunctionDerivatives(at(i \div 24))[i % 24]]]

(***************************************************************************)
(* 3x3 inversion primitive.                                                *)
(***************************************************************************)
DetThreshold == <<1, 0, 1000>>

ZeroMat3 == Array3x3([j \in 0..2 |-> [k \in 0..2 |-> Zero]])

\* determinant by cofactor expansion along the first row
Det3x3(m) ==
  LET minor0 == RSub(RMul(m[1][1], m[2][2]), RMul(m[1][2], m[2][1]))
      minor1 == RSub(RMul(m[1][0], m[2][2]), RMul(m[1][2], m[2][0]))
      minor2 == RSub(RMul(m[1][0], m[2][1]), RMul(m[1][1], m[2][0]))
  IN  RAdd(RSub(RMul(m[0][0], minor0), RMul(m[0][1], minor1)), RMul(m[0][2], minor2))

\* cofactor C[j][k] of m; the adjugate is its transpose
Cofactor(m, j, k) ==
  LET r1 == (j + 1) % 3
      r2 == (j + 2) % 3
      c1 == (k + 1) % 3
      c2 == (k + 2) % 3
  IN  RSub(RMul(m[r1][c1], m[r2][c2]), RMul(m[r1][c2], m[r2][c1]))

Degenerate(det) == RLeq(RAbs(det), DetThreshold)

InverseFromDet(mat, inv, det) ==
  [det |-> det,
   ok |-> ~Degenerate(det),
   inv |-> IF Degenerate(det) THEN inv
           ELSE Array3x3([j \in 0..2 |-> [k \in 0..2 |->
                            RDiv(Cofactor(mat, k, j), det)]])]

\* returns the determinant and the inverse, or signals DegenerateGeometry
\* (ok = FALSE) and leaves the caller's inverse as it was
Invert3x3(mat, inv) == InverseFromDet(mat, inv, Det3x3(mat))

(***************************************************************************)
(* Caller data: node coordinates, displacements, integration-point fields. *)
(***************************************************************************)
CubeMap(r, s, t) == <<I((r + 1) \div 2), I((s + 1) \div 2), I((t + 1) \div 2)>>
BoxMap(r, s, t) == <<I(r + 3), I((s + 1) \div 2), I(3 * ((t + 1) \div 2) - 1)>>
ShearedMap(r, s, t) == <<I(r + s), I(s + t), I(t)>>
FrustumMap(r, s, t) == <<I(((3 - t) \div 2) * r), I(((3 - t) \div 2) * s), I(t + 1)>>
MirroredMap(r, s, t) == <<I((1 - r) \div 2), I((s + 1) \div 2), I((t + 1) \div 2)>>
MixedMap(r, s, t) == <<I(r * (1 + 2 * t)), I(s), I(t)>>
BowTieMap(r, s, t) == <<I(2 * r * t), I(s), I(t)>>
FlatMap(r, s, t) == <<I(r), I(s), Zero>>
HalfCollapsedMap(r, s, t) == <<Mk(r, -(r * t), 1), I(s), I(t)>>
ThinMap(r, s, t) == <<I(r), I(s), Mk(t, 0, 4000)>>

GeomIds ==
  {"cube", "box", "sheared", "frustum", "mirrored", "mixed", "bowtie", "flat",
   "halfcollapsed", "thin"}

MapOf(g, r, s, t) ==
  CASE g = "cube" -> CubeMap(r, s, t)
    [] g = "box" -> BoxMap(r, s, t)
    [] g = "sheared" -> ShearedMap(r, s, t)
    [] g = "frustum" -> FrustumMap(r, s, t)
    [] g = "mirrored" -> MirroredMap(r, s, t)
    [] g = "mixed" -> MixedMap(r, s, t)
    [] g = "bowtie" -> BowTieMap(r, s, t)
    [] g = "flat" -> FlatMap(r, s, t)
    [] g = "halfcollapsed" -> HalfCollapsedMap(r, s, t)
    [] g = "thin" -> ThinMap(r, s, t)

\* the 8 nodes of the image of the reference cube under the trilinear map g
Geometry(g) ==
  Array8x3([n \in 0..7 |-> [k \in 0..2 |->
              MapOf(g, NodeSign[n][1], NodeSign[n][2], NodeSign[n][3])[k + 1]]])

Scales == (-MaxScale..MaxScale) \ {0}
Densities == 1..MaxDensity
Fills == {5}

\* displacement fields: a uniform dilation by s, or a simple shear
DispKinds == {<<"dilate", s>> : s \in Scales} \cup {<<"shear", 1>>}
ForwardDispKinds == {<<"dilate", s>> : s \in 1..MaxScale} \cup {<<"shear", 1>>}

Displacement(ref, d) ==
  Array8x3([n \in 0..7 |-> [k \in 0..2 |->
            IF d[1] = "dilate" THEN RMul(I(d[2] - 1), ref[n][k])
            ELSE IF k = 0 THEN ref[n][1] ELSE Zero]])

\* integration-point stresses, symmetric engineering order
StressIds == {"zero", "pressure", "shear", "varying"}
Stress(id) ==
  Array8xN([p \in 0..7 |-> [c \in 0..5 |->
            CASE id = "zero" -> Zero
              [] id = "pressure" -> IF c < 3 THEN I(-2) ELSE Zero
              [] id = "shear" -> IF c = K_S_XY_ THEN One ELSE I(c)
              [] id = "varying" -> I(p + c - 4)]], 6)

\* integration-point fields with up to 9 components
FieldIds == {"constant", "ramp", "upper"}
Field(id, n) ==
  Array8xN([p \in 0..7 |-> [i \in 0..(n - 1) |->
            CASE id = "constant" -> Mk(2 * i - 3, 0, 2)
              [] id = "ramp" -> I(p * (i % 2) - i)
              [] id = "upper" -> IF p >= 4 THEN I(i + 1) ELSE Zero]], n)

NumQuantities == {1, 6, 9}

\* the caller's output buffers before a call, every slot holding fill
Buffers(fill) ==
  [lumped_mass |-> Array8([n \in 0..7 |-> I(fill)]),
   consistent_mass_matrix |-> Array8x8([i \in 0..7 |-> [j \in 0..7 |-> I(fill)]]),
   deformation_gradients |-> Array8xN([p \in 0..7 |-> [c \in 0..8 |-> I(fill)]], 9),
   node_forces |-> Array8x3([n \in 0..7 |-> [k \in 0..2 |-> I(fill)]]),
   vol_ave_quantity |-> Array([i \in 0..8 |-> I(fill)], 9),
   volume |-> I(fill)]

(***************************************************************************)
(* Geometric intermediates.                                                *)
(***************************************************************************)
\* a[j][k] = sum over the nodes n of rc_j(n) * dN_n/dxi_k at int_pt,
\* on the reference coordinates
ReferenceJacobian(node_reference_coords, int_pt) ==
  Array3x3([j \in 0..2 |-> [k \in 0..2 |->
              RSum8([n \in 0..7 |->
                       RMul(node_reference_coords[n][j],
                            shape_fcn_deriv_[24 * int_pt + dim_ * n + k])])]])

\* the same sum on the current coordinates cc = reference + displacement
CurrentJacobian(node_reference_coords, node_displacements, int_pt) ==
  Array3x3([j \in 0..2 |-> [k \in 0..2 |->
              RSum8([n \in 0..7 |->
                       RMul(RAdd(node_reference_coords[n][j],
                                 node_displacements[n][j]),
                            shape_fcn_deriv_[24 * int_pt + dim_ * n + k])])]])

\* variant: a failure signalled by the inversion is absorbed and the loop goes on
FirstFailureAbsorbed(P) == num_int_pts_

\* the integration point at which the loop is left: the first one whose
\* inversion signals DegenerateGeometry, or num_int_pts_ if none does
FirstFailure(P) ==
  CHOOSE m \in 0..num_int_pts_ :
    /\ m < num_int_pts_ => ~P[m].ok
    /\ \A int_pt \in 0..(m - 1) : P[int_pt].ok

\* the determinants computed up to the point where the loop is left
DetsSeen(P) ==
  SubSeq(<<P[0].det, P[1].det, P[2].det, P[3].det,
           P[4].det, P[5].det, P[6].det, P[7].det>>,
         1, IF FirstFailure(P) < 8 THEN FirstFailure(P) + 1 ELSE 8)

Status(P) == IF FirstFailure(P) = num_int_pts_ THEN "ok" ELSE "DegenerateGeometry"

(***************************************************************************)
(* ComputeDeformationGradients.                                            *)
(***************************************************************************)
\* def_grad[j][k] = a[j][0] * b_inv[0][k] + a[j][1] * b_inv[1][k] + a[j][2] * b_inv[2][k]
DefGrad(a, r) ==
  [det |-> r.det, ok |-> r.ok, b_inv |-> r.inv,
   def_grad |->
     Array3x3([j \in 0..2 |-> [k \in 0..2 |->
                 RAdd(RAdd(RMul(a[j][0], r.inv[0][k]), RMul(a[j][1], r.inv[1][k])),
                      RMul(a[j][2], r.inv[2][k]))]])]

\* variant: the current-configuration matrix is inverted instead of the
\* reference-configuration one
DeformationGradientIntPtInvertsCurrent(node_reference_coords, node_displacements, int_pt, b_inv) ==
  DefGrad(CurrentJacobian(node_reference_coords, node_displacements, int_pt),
          Invert3x3(CurrentJacobian(node_reference_coords, node_displacements, int_pt),
                    b_inv))

\* the body of the integration-point loop up to def_grad
DeformationGradientIntPt(node_reference_coords, node_displacements, int_pt, b_inv) ==
  DefGrad(CurrentJacobian(node_reference_coords, node_displacements, int_pt),
          Invert3x3(ReferenceJacobian(node_reference_coords, int_pt), b_inv))

\* the slots the nine writes go to, in the order of the statements: the
\* statement number n writes def_grad[(n - 1) \div 3][(n - 1) % 3]
DeformationGradientSlots ==
  <<K_F_XX_, K_F_XY_, K_F_XZ_, K_F_YX_, K_F_YY_, K_F_YZ_, K_F_ZX_, K_F_ZY_, K_F_ZZ_>>

\* the nine writes into the output view at one integration point
WriteDeformationGradient(deformation_gradients_pt, def_grad) ==
  [deformation_gradients_pt EXCEPT
     ![K_F_XX_] = def_grad[0][0],
     ![K_F_XY_] = def_grad[0][1],
     ![K_F_XZ_] = def_grad[0][2],
     ![K_F_YX_] = def_grad[1][0],
     ![K_F_YY_] = def_grad[1][1],
     ![K_F_YZ_] = def_grad[1][2],
     ![K_F_ZX_] = def_grad[2][0],
     ![K_F_ZY_] = def_grad[2][1],
     ![K_F_ZZ_] = def_grad[2][2]]

\* the writes of the integration points before the one that leaves the loop
DeformationGradientsWritten(P, deformation_gradients) ==
  [dets |-> DetsSeen(P),
   status |-> Status(P),
   deformation_gradients |->
     Array8([int_pt \in 0..7 |->
               IF int_pt < FirstFailure(P)
                 THEN WriteDeformationGradient(deformation_gradients[int_pt],
                                               P[int_pt].def_grad)
                 ELSE deformation_gradients[int_pt]])]

\* the loop runs until Invert3x3 signals a failure, which leaves the function
\* at once: the integration points before it have been written
ComputeDeformationGradients_impl(node_reference_coords, node_displacements, deformation_gradients) ==
  DeformationGradientsWritten(
    Array8([int_pt \in 0..7 |->
              DeformationGradientIntPt(node_reference_coords, node_displacements,
                                       int_pt, ZeroMat3)]),
    deformation_gradients)

(***************************************************************************)
(* ComputeNodalForces.                                                     *)
(***************************************************************************)
\* dN_dx1, dN_dx2, dN_dx3 (c = 0, 1, 2) of a node at an integration point
dN_dx(a_inv, int_pt, node, c) ==
  RAdd(RAdd(RMul(shape_fcn_deriv_[int_pt * (dim_ * num_nodes_) + dim_ * node], a_inv[0][c]),
            RMul(shape_fcn_deriv_[int_pt * (dim_ * num_nodes_) + dim_ * node + 1], a_inv[1][c])),
       RMul(shape_fcn_deriv_[int_pt * (dim_ * num_nodes_) + dim_ * node + 2], a_inv[2][c]))

\* f = dN_dx1 * s1 + dN_dx2 * s2 + dN_dx3 * s3;  f *= jac_det * int_wts_[int_pt]
ForceComponent(dN_dx1, dN_dx2, dN_dx3, s1, s2, s3, scale) ==
  RMul(RAdd(RAdd(RMul(dN_dx1, s1), RMul(dN_dx2, s2)), RMul(dN_dx3, s3)), scale)

\* the stress slots that f1, f2 and f3 read
StressSlotsRead ==
  {K_S_XX_, K_S_YX_, K_S_ZX_, K_S_XY_, K_S_YY_, K_S_ZY_, K_S_XZ_, K_S_YZ_, K_S_ZZ_}

\* f1, f2, f3 from the spatial derivatives and the stress S at the point
NodalForce(dN_dx1, dN_dx2, dN_dx3, S, scale) ==
  (0 :> ForceComponent(dN_dx1, dN_dx2, dN_dx3, S[K_S_XX_], S[K_S_YX_], S[K_S_ZX_], scale))
  @@ (1 :> ForceComponent(dN_dx1, dN_dx2, dN_dx3, S[K_S_XY_], S[K_S_YY_], S[K_S_ZY_], scale))
  @@ (2 :> ForceComponent(dN_dx1, dN_dx2, dN_dx3, S[K_S_XZ_], S[K_S_YZ_], S[K_S_ZZ_], scale))

\* f1, f2, f3 of one node at one integration point
NodalForceContribution(a_inv, jac_det, int_pt_stresses, int_pt, node) ==
  NodalForce(dN_dx(a_inv, int_pt, node, 0), dN_dx(a_inv, int_pt, node, 1),
             dN_dx(a_inv, int_pt, node, 2), int_pt_stresses[int_pt],
             RMul(jac_det, int_wts_[int_pt]))

\* variant: the accumulator is not zeroed but starts from the output view
ForceFromView(node_forces) == node_forces

\* the local accumulator force as declared: all zero
ZeroForce(node_forces) == Array8x3([node \in 0..7 |-> [k \in 0..2 |-> Zero]])

\* variant: the contribution is assigned, not subtracted
AccumulateForceAssign(r, f, force) ==
  [det |-> r.det, ok |-> r.ok, a_inv |-> r.inv, f |-> f,
   force |->
     IF r.ok
       THEN Array8x3([node \in 0..7 |-> [k \in 0..2 |-> RNeg(f[node][k])]])
       ELSE force]

\* force[node][k] -= f for every node, unless the inversion r has failed
AccumulateForce(r, f, force) ==
  [det |-> r.det, ok |-> r.ok, a_inv |-> r.inv, f |-> f,
   force |->
     IF r.ok
       THEN Array8x3([node \in 0..7 |-> [k \in 0..2 |->
                        RSub(force[node][k], f[node][k])]])
       ELSE force]

\* the node loop at one integration point, given the outcome r of Invert3x3
NodalForcesFromInverse(r, int_pt_stresses, int_pt, force) ==
  AccumulateForce(
    r,
    IF r.ok
      THEN Array8([node \in 0..7 |->
                     NodalForceContribution(r.inv, r.det, int_pt_stresses, int_pt, node)])
      ELSE ZeroForce(force),
    force)

\* one pass of the integration-point loop body on the locals a_inv and force
NodalForcesIntPt(node_reference_coords, node_displacements, int_pt_stresses, int_pt, a_inv, force) ==
  NodalForcesFromInverse(
    Invert3x3(CurrentJacobian(node_reference_coords, node_displacements, int_pt), a_inv),
    int_pt_stresses, int_pt, force)

\* variant: force is added to what the output view holds
NodalForcesAccumulated(P, force0, node_forces) ==
  [dets |-> DetsSeen(P),
   status |-> Status(P),
   node_forces |->
     IF FirstFailure(P) < 8 THEN node_forces
     ELSE Array8x3([node \in 0..7 |-> [k \in 0..2 |->
                      RAdd(node_forces[node][k],
                           RSub(force0[node][k],
                                RSum8([int_pt \in 0..7 |-> P[int_pt].f[node][k]])))]])]

\* force after the loop and its copy to the output view; a failure signalled
\* by Invert3x3 leaves the function before the copy
NodalForcesWritten(P, force0, node_forces) ==
  [dets |-> DetsSeen(P),
   status |-> Status(P),
   node_forces |->
     IF FirstFailure(P) < 8 THEN node_forces
     ELSE Array8x3([node \in 0..7 |-> [k \in 0..2 |->
                      RSub(force0[node][k],
                           RSum8([int_pt \in 0..7 |-> P[int_pt].f[node][k]]))]])]

ComputeNodalForces_impl(node_reference_coords, node_displacements, int_pt_stresses, node_forces) ==
  NodalForcesWritten(
    Array8([int_pt \in 0..7 |->
              NodalForcesIntPt(node_reference_coords, node_displacements,
                               int_pt_stresses, int_pt, ZeroMat3,
                               ZeroForce(node_forces))]),
    ZeroForce(node_forces), node_forces)

\* orders in which the integration-point loop may visit the 8 points
VisitOrders ==
  {<<0, 1, 2, 3, 4, 5, 6, 7>>, <<7, 6, 5, 4, 3, 2, 1, 0>>, <<3, 0, 6, 1, 7, 4, 2, 5>>}

\* the locals a pass leaves behind
AfterPass(r) == [ok |-> r.ok, a_inv |-> r.a_inv, force |-> r.force]

\* the pass at int_pt on the locals fr; after a failure no pass is run
Visit(node_reference_coords, node_displacements, int_pt_stresses, int_pt, fr) ==
  IF fr.ok
    THEN AfterPass(NodalForcesIntPt(node_reference_coords, node_displacements,
                                    int_pt_stresses, int_pt, fr.a_inv, fr.force))
    ELSE fr

\* the locals after the loop, or the copy to the output view
LoopEnd(fr, node_forces) ==
  [status |-> IF fr.ok THEN "ok" ELSE "DegenerateGeometry",
   node_forces |-> IF fr.ok THEN fr.force ELSE node_forces]

\* ComputeNodalForces_impl with the loop visiting the points in the given
\* order, pass after pass on the locals a_inv and force
NodalForcesInOrder(node_reference_coords, node_displacements, int_pt_stresses, node_forces, order) ==
  LET v0 == [ok |-> TRUE, a_inv |-> ZeroMat3, force |-> ZeroForce(node_forces)]
      v1 == Visit(node_reference_coords, node_displacements, int_pt_stresses, order[1], v0)
      v2 == Visit(node_reference_coords, node_displacements, int_pt_stresses, order[2], v1)
      v3 == Visit(node_reference_coords, node_displacements, int_pt_stresses, order[3], v2)
      v4 == Visit(node_reference_coords, node_displacements, int_pt_stresses, order[4], v3)
      v5 == Visit(node_reference_coords, node_displacements, int_pt_stresses, order[5], v4)
      v6 == Visit(node_reference_coords, node_displacements, int_pt_stresses, order[6], v5)
      v7 == Visit(node_reference_coords, node_displacements, int_pt_stresses, order[7], v6)
      v8 == Visit(node_reference_coords, node_displacements, int_pt_stresses, order[8], v7)
  IN  LoopEnd(v8, node_forces)

(***************************************************************************)
(* Volume averaging.                                                       *)
(***************************************************************************)
\* variant: the weight is accumulated instead of the determinant
VolumeTermWeightOnly(jac_det, wt) == wt

\* the term of   volume += jac_det
VolumeTerm(jac_det, wt) == jac_det

\* variant: the determinant is left out of the weighted term
VolAveTermNoJacobian(quantity, wt, jac_det) == RMul(quantity, wt)

\* the term of   vol_ave[i] += int_pt_quantities(int_pt, i) * int_wts_[int_pt] * jac_det
VolAveTerm(quantity, wt, jac_det) == RMul(RMul(quantity, wt), jac_det)

\* variant: the displacement is left out of the coordinates
VolumeAverageIntPtReference(node_reference_coords, node_displacements, int_pt, a_inv) ==
  Invert3x3(ReferenceJacobian(node_reference_coords, int_pt), a_inv)

\* the body of the integration-point loop up to jac_det
VolumeAverageIntPt(node_reference_coords, node_displacements, int_pt, a_inv) ==
  Invert3x3(CurrentJacobian(node_reference_coords, node_displacements, int_pt), a_inv)

\* volume after the loop, or the running sum when a failure leaves it
Volume(P) ==
  RSum8([int_pt \in 0..7 |->
           IF int_pt < FirstFailure(P)
             THEN VolumeTerm(P[int_pt].det, int_wts_[int_pt])
             ELSE Zero])

\* vol_ave[i] after the loop
VolAve(P, int_pt_quantities, i) ==
  RSum8([int_pt \in 0..7 |->
           VolAveTerm(int_pt_quantities[int_pt][i], int_wts_[int_pt], P[int_pt].det)])

\* variant: the slots from num_quantities on are cleared
VolumeAverageWrittenAllSlots(P, volume, int_pt_quantities, vol_ave_quantity, num_quantities) ==
  [dets |-> DetsSeen(P),
   status |-> Status(P),
   volume |-> volume,
   vol_ave_quantity |->
     IF FirstFailure(P) < 8 THEN vol_ave_quantity
     ELSE Array9([i \in 0..8 |->
                    IF i < num_quantities
                      THEN RDiv(VolAve(P, int_pt_quantities, i), volume)
                      ELSE Zero])]

\* vol_ave[i] /= volume; vol_ave_quantity(i) = vol_ave[i]
VolumeAverageWritten(P, volume, int_pt_quantities, vol_ave_quantity, num_quantities) ==
  [dets |-> DetsSeen(P),
   status |-> Status(P),
   volume |-> volume,
   vol_ave_quantity |->
     IF FirstFailure(P) < 8 THEN vol_ave_quantity
     ELSE Array9([i \in 0..8 |->
                    IF i < num_quantities
                      THEN RDiv(VolAve(P, int_pt_quantities, i), volume)
                      ELSE vol_ave_quantity[i]])]

VolumeAverageOver(P, int_pt_quantities, vol_ave_quantity, num_quantities) ==
  VolumeAverageWritten(P, Volume(P), int_pt_quantities, vol_ave_quantity, num_quantities)

\* volume is a reference parameter: it is zeroed before the loop and holds the
\* running sum when a failure signalled by Invert3x3 leaves the function
ComputeVolumeAverageQuantities_impl(node_reference_coords, node_displacements, int_pt_quantities, vol_ave_quantity, num_quantities) ==
  VolumeAverageOver(
    Array8([int_pt \in 0..7 |->
              VolumeAverageIntPt(node_reference_coords, node_displacements, int_pt,
                                 ZeroMat3)]),
    int_pt_quantities, vol_ave_quantity, num_quantities)

(***************************************************************************)
(* Mass.                                                                   *)
(***************************************************************************)
\* first loop of the mass routines: jac_det[int_pt] = Invert3x3(a, a_inv)
JacDetIntPt(node_reference_coords, int_pt) ==
  Invert3x3(ReferenceJacobian(node_reference_coords, int_pt), ZeroMat3)

\* variant: the shape value of node i is used for both factors
ConsistentMassTermDiagonal(density, i, j, int_pt, jac_det) ==
  RMul(RMul(RMul(RMul(int_wts_[int_pt], I(density)),
                 shape_fcn_vals_[int_pt * num_nodes_ + i]),
            shape_fcn_vals_[int_pt * num_nodes_ + i]),
       jac_det)

\* one term of consistent_mass_matrix[i][j]
ConsistentMassTerm(density, i, j, int_pt, jac_det) ==
  RMul(RMul(RMul(RMul(int_wts_[int_pt], I(density)),
                 shape_fcn_vals_[int_pt * num_nodes_ + i]),
            shape_fcn_vals_[int_pt * num_nodes_ + j]),
       jac_det)

\* second loop: the matrix is written once every determinant is there
ConsistentMassWritten(P, density, consistent_mass_matrix) ==
  [dets |-> DetsSeen(P),
   status |-> Status(P),
   consistent_mass_matrix |->
     IF FirstFailure(P) < 8 THEN consistent_mass_matrix
     ELSE Array8x8([i \in 0..7 |-> [j \in 0..7 |->
                      RSum8([int_pt \in 0..7 |->
                               ConsistentMassTerm(density, i, j, int_pt,
                                                  P[int_pt].det)])]])]

ComputeConsistentMass_impl(density, node_reference_coords, consistent_mass_matrix) ==
  ConsistentMassWritten(
    Array8([int_pt \in 0..7 |-> JacDetIntPt(node_reference_coords, int_pt)]),
    density, consistent_mass_matrix)

\* variant: the shape value enters squared
LumpedMassTermSquared(density, i, int_pt, jac_det) ==
  RMul(RMul(RMul(RMul(int_wts_[int_pt], I(density)),
                 shape_fcn_vals_[int_pt * num_nodes_ + i]),
            shape_fcn_vals_[int_pt * num_nodes_ + i]),
       jac_det)

\* one term of lumped_mass[i]: weight * density * shapeValue_i * determinant
LumpedMassTerm(density, i, int_pt, jac_det) ==
  RMul(RMul(RMul(int_wts_[int_pt], I(density)),
            shape_fcn_vals_[int_pt * num_nodes_ + i]),
       jac_det)

LumpedMassWritten(P, density, lumped_mass) ==
  [dets |-> DetsSeen(P),
   status |-> Status(P),
   lumped_mass |->
     IF FirstFailure(P) < 8 THEN lumped_mass
     ELSE Array8([i \in 0..7 |->
                    RSum8([int_pt \in 0..7 |->
                             LumpedMassTerm(density, i, int_pt, P[int_pt].det)])])]

ComputeLumpedMass(density, node_reference_coords, lumped_mass) ==
  LumpedMassWritten(
    Array8([int_pt \in 0..7 |-> JacDetIntPt(node_reference_coords, int_pt)]),
    density, lumped_mass)

(***************************************************************************)
(* Constant queries.                                                       *)
(***************************************************************************)
\* variant: the query returns the node count
DimOfNodes == num_nodes_

Dim == dim_
NumNodesPerElement == num_nodes_
NumIntegrationPointsPerElement == num_int_pts_

(***************************************************************************)
(* SerialContactManager: ComputeContactForce hands its arguments to the    *)
(* pure virtual ComputeSerialContactForce of the derived class.            *)
(***************************************************************************)
\* the caller's arguments: time steps and contact_force views, each view
\* standing for the buffer it refers to
Steps == 0..MaxStep
ForceViews == {"view1", "view2"}

\* what an implementation of ComputeSerialContactForce may add to the buffer
ContactForceAdded == {0, 1}

\* no call made yet, the buffers empty
NoContact ==
  [calls |-> <<>>, serial_calls |-> <<>>, buffers |-> [v \in ForceViews |-> 0]]

\* variant: the step is advanced before it is handed on
ForwardedArgsNextStep(step, debug_output, contact_force) ==
  [step |-> step + 1, debug_output |-> debug_output, contact_force |-> contact_force]

\* the arguments of the call ComputeSerialContactForce(step, debug_output, contact_force)
ForwardedArgs(step, debug_output, contact_force) ==
  [step |-> step, debug_output |-> debug_output, contact_force |-> contact_force]

\* the derived class's implementation: it is not part of the class, so all
\* that is known is that it is entered with args and may write to the buffer
\* of its view; it notes its arguments and the content it leaves
ComputeSerialContactForce(c, args, added) ==
  [c EXCEPT !.serial_calls =
              Append(@, [args |-> args,
                         left |-> c.buffers[args.contact_force] + added]),
            !.buffers[args.contact_force] = @ + added]

\* the whole of ComputeContactForce: the one call of the virtual function
ComputeContactForce(step, debug_output, contact_force) ==
  /\ Len(contact.calls) < MaxCalls
  /\ \E added \in ContactForceAdded :
       contact' = ComputeSerialContactForce(
                    [contact EXCEPT !.calls =
                       Append(@, [step |-> step, debug_output |-> debug_output,
                                  contact_force |-> contact_force])],
                    ForwardedArgs(step, debug_output, contact_force), added)
  /\ UNCHANGED <<tables, pc, call, pre, out, threads, locals>>

NextContact ==
  \E step \in Steps, debug_output \in BOOLEAN, contact_force \in ForceViews :
    ComputeContactForce(step, debug_output, contact_force)

(***************************************************************************)
(* The sequential driver: one element object, one call at a time.          *)
(***************************************************************************)
Threads == 1..NumThreads

NoCall == [op |-> "none"]
NoResult == [status |-> "none", ret |-> 0, dets |-> <<>>, buf |-> Buffers(0)]
IdleThread == [pc |-> "idle"]
NoLocals == [a_inv |-> ZeroMat3, force |-> ZeroForce(Buffers(0).node_forces)]

Init ==
  /\ int_pts_ = HexElement.int_pts
  /\ int_wts_ = HexElement.int_wts
  /\ shape_fcn_vals_ = HexElement.shape_fcn_vals
  /\ shape_fcn_deriv_ = HexElement.shape_fcn_deriv
  /\ pc = "idle"
  /\ call = NoCall
  /\ pre = Buffers(0)
  /\ out = NoResult
  /\ threads = [t \in Threads |-> IdleThread]
  /\ locals = [s \in 0..NumThreads |-> NoLocals]
  /\ contact = NoContact

\* what the caller sees after the call: the outcome r of the operation and
\* the buffers b, of which the operation has written those named in fields
Returned(r, b, fields) ==
  [status |-> r.status, ret |-> 0, dets |-> r.dets,
   buf |-> [f \in DOMAIN b |-> IF f \in fields THEN r[f] ELSE b[f]]]

CallComputeLumpedMass ==
  /\ pc = "idle"
  /\ \E g \in GeomIds, density \in Densities, fill \in Fills :
       /\ call' = [op |-> "ComputeLumpedMass", density |-> density,
                   node_reference_coords |-> Geometry(g)]
       /\ pre' = Buffers(fill)
       /\ out' = Returned(ComputeLumpedMass(density, call'.node_reference_coords,
                                            pre'.lumped_mass),
                          pre', {"lumped_mass"})
  /\ pc' = "returned"
  /\ UNCHANGED <<tables, threads, locals, contact>>

CallComputeConsistentMass ==
  /\ pc = "idle"
  /\ \E g \in GeomIds, density \in Densities, fill \in Fills :
       /\ call' = [op |-> "ComputeConsistentMass", density |-> density,
                   node_reference_coords |-> Geometry(g)]
       /\ pre' = Buffers(fill)
       /\ out' = Returned(ComputeConsistentMass_impl(density,
                                                     call'.node_reference_coords,
                                                     pre'.consistent_mass_matrix),
                          pre', {"consistent_mass_matrix"})
  /\ pc' = "returned"
  /\ UNCHANGED <<tables, threads, locals, contact>>

CallComputeDeformationGradients ==
  /\ pc = "idle"
  /\ \E g \in GeomIds, d \in DispKinds, fill \in Fills :
       /\ call' = [op |-> "ComputeDeformationGradients",
                   node_reference_coords |-> Geometry(g),
                   node_displacements |-> Displacement(Geometry(g), d)]
       /\ pre' = Buffers(fill)
       /\ out' = Returned(ComputeDeformationGradients_impl(
                            call'.node_reference_coords, call'.node_displacements,
                            pre'.deformation_gradients),
                          pre', {"deformation_gradients"})
  /\ pc' = "returned"
  /\ UNCHANGED <<tables, threads, locals, contact>>

CallComputeNodalForces ==
  /\ pc = "idle"
  /\ \E g \in GeomIds, d \in ForwardDispKinds, sid \in StressIds, fill \in Fills :
       /\ call' = [op |-> "ComputeNodalForces",
                   node_reference_coords |-> Geometry(g),
                   node_displacements |-> Displacement(Geometry(g), d),
                   int_pt_stresses |-> Stress(sid)]
       /\ pre' = Buffers(fill)
       /\ out' = Returned(ComputeNodalForces_impl(
                            call'.node_reference_coords, call'.node_displacements,
                            call'.int_pt_stresses, pre'.node_forces),
                          pre', {"node_forces"})
  /\ pc' = "returned"
  /\ UNCHANGED <<tables, threads, locals, contact>>

CallComputeVolumeAverage ==
  /\ pc = "idle"
  /\ \E g \in GeomIds, d \in ForwardDispKinds, fid \in FieldIds,
        n \in NumQuantities, fill \in Fills :
       /\ call' = [op |-> "ComputeVolumeAverage",
                   node_reference_coords |-> Geometry(g),
                   node_displacements |-> Displacement(Geometry(g), d),
                   int_pt_quantities |-> Field(fid, n), num_quantities |-> n]
       /\ pre' = Buffers(fill)
       /\ out' = Returned(ComputeVolumeAverageQuantities_impl(
                            call'.node_reference_coords, call'.node_displacements,
                            call'.int_pt_quantities, pre'.vol_ave_quantity, n),
                          pre', {"vol_ave_quantity", "volume"})
  /\ pc' = "returned"
  /\ UNCHANGED <<tables, threads, locals, contact>>

Query(name, value) ==
  /\ pc = "idle"
  /\ call' = [op |-> name]
  /\ pre' = Buffers(0)
  /\ out' = [NoResult EXCEPT !.status = "ok", !.ret = value]
  /\ pc' = "returned"
  /\ UNCHANGED <<tables, threads, locals, contact>>

CallDim == Query("Dim", Dim)
CallNumNodesPerElement == Query("NumNodesPerElement", NumNodesPerElement)
CallNumIntegrationPointsPerElement ==
  Query("NumIntegrationPointsPerElement", NumIntegrationPointsPerElement)

\* the caller takes the results and is ready for the next call
Return ==
  /\ pc = "returned"
  /\ pc' = "idle"
  /\ call' = NoCall
  /\ pre' = Buffers(0)
  /\ out' = NoResult
  /\ UNCHANGED <<tables, threads, locals, contact>>

Next ==
  \/ CallDim
  \/ CallNumNodesPerElement
  \/ CallNumIntegrationPointsPerElement
  \/ CallComputeLumpedMass
  \/ CallComputeConsistentMass
  \/ CallComputeDeformationGradients
  \/ CallComputeNodalForces
  \/ CallComputeVolumeAverage
  \/ Return

Spec == Init /\ [][Next]_vars

(***************************************************************************)
(* Concurrent callers: every thread runs ComputeNodalForces of the one     *)
(* element object for a physical element of its own, one integration point *)
(* per step.                                                               *)
(***************************************************************************)
\* the physical element thread t works on
ElementGeoms(t) ==
  CASE t = 1 -> {"sheared", "halfcollapsed"}
    [] t % 2 = 0 -> {"frustum"}
    [] OTHER -> {"box"}
ElementDisp(t) == <<"dilate", 1 + (t % 2)>>
ElementStress(t) == IF t % 2 = 1 THEN "varying" ELSE "shear"

\* variant: force and a_inv have static storage, one frame for all calls
LocalSlotStatic(t) == IF t \in Threads THEN 0 ELSE t

\* force and a_inv are automatic variables: every call has a frame of its own
LocalSlot(t) == t

\* entry: the locals are declared and initialised
Begin(t) ==
  /\ threads[t].pc = "idle"
  /\ \E g \in ElementGeoms(t) : threads' = [threads EXCEPT ![t] =
       [pc |-> "running", int_pt |-> 0,
        node_reference_coords |-> Geometry(g),
        node_displacements |-> Displacement(Geometry(g), ElementDisp(t)),
        int_pt_stresses |-> Stress(ElementStress(t)),
        node_forces |-> Buffers(5).node_forces]]
  /\ locals' = [locals EXCEPT ![LocalSlot(t)] =
       [a_inv |-> ZeroMat3, force |-> ZeroForce(threads'[t].node_forces)]]
  /\ UNCHANGED <<tables, pc, call, pre, out, contact>>

\* the end of one pass with outcome r: the locals are updated and the loop
\* goes on, or the failure signalled by Invert3x3 unwinds the call
EndOfPass(t, r) ==
  IF r.ok
    THEN /\ locals' = [locals EXCEPT ![LocalSlot(t)] =
                         [a_inv |-> r.a_inv, force |-> r.force]]
         /\ threads' = [threads EXCEPT ![t].int_pt = @ + 1]
    ELSE /\ locals' = locals
         /\ threads' = [threads EXCEPT ![t].pc = "failed"]

\* one pass of the integration-point loop
Step(t) ==
  /\ threads[t].pc = "running"
  /\ threads[t].int_pt < num_int_pts_
  /\ EndOfPass(t, NodalForcesIntPt(threads[t].node_reference_coords,
                                   threads[t].node_displacements,
                                   threads[t].int_pt_stresses, threads[t].int_pt,
                                   locals[LocalSlot(t)].a_inv,
                                   locals[LocalSlot(t)].force))
  /\ UNCHANGED <<tables, pc, call, pre, out, contact>>

\* after the loop: force is copied to the node_forces view
Finish(t) ==
  /\ threads[t].pc = "running"
  /\ threads[t].int_pt = num_int_pts_
  /\ threads' = [threads EXCEPT ![t].pc = "done",
                                ![t].node_forces = locals[LocalSlot(t)].force]
  /\ UNCHANGED <<tables, pc, call, pre, out, locals, contact>>

\* the caller takes the result; the thread is ready for its next call
ThreadReturn(t) ==
  /\ threads[t].pc \in {"done", "failed"}
  /\ threads' = [threads EXCEPT ![t] = IdleThread]
  /\ UNCHANGED <<tables, pc, call, pre, out, locals, contact>>

NextConc ==
  \/ \E t \in Threads : Begin(t)
  \/ \E t \in Threads : Step(t)
  \/ \E t \in Threads : Finish(t)
  \/ \E t \in Threads : ThreadReturn(t)

SpecConc == Init /\ [][NextConc]_vars

\* the contact manager under a caller that makes up to MaxCalls calls
SpecContact == Init /\ [][NextContact]_vars

(***************************************************************************)
(* Properties.                                                             *)
(***************************************************************************)
InvertingOps ==
  {"ComputeLumpedMass", "ComputeConsistentMass", "ComputeDeformationGradients",
   "ComputeNodalForces", "ComputeVolumeAverage"}
CurrentConfigurationOps == {"ComputeNodalForces", "ComputeVolumeAverage"}

Called(op) == pc = "returned" /\ call.op = op

\* determinant of the matrix the call c inverts at int_pt, from c's inputs
JacobianDet(c, int_pt) ==
  Det3x3(IF c.op \in CurrentConfigurationOps
           THEN CurrentJacobian(c.node_reference_coords, c.node_displacements, int_pt)
           ELSE ReferenceJacobian(c.node_reference_coords, int_pt))

JacobianDets(c) == Array8([int_pt \in 0..7 |-> JacobianDet(c, int_pt)])

\* no determinant within the threshold of zero
Invertible(c) ==
  LET D == JacobianDets(c) IN \A int_pt \in 0..7 : ~Degenerate(D[int_pt])

\* the element is neither collapsed nor inverted at any integration point
NonDegenerate(c) ==
  LET D == JacobianDets(c) IN \A int_pt \in 0..7 : RLess(DetThreshold, D[int_pt])

SameSign(c) ==
  LET D == JacobianDets(c) IN \A int_pt \in 0..7 : RSign(D[int_pt]) = RSign(D[0])

FirstDegenerate(c) ==
  LET D == JacobianDets(c)
      bad == {int_pt \in 0..7 : Degenerate(D[int_pt])}
  IN  CHOOSE m \in bad : \A x \in bad : m <= x

\* lo <= x <= hi for a finite x
Between(x, lo, hi) == IsFinite(x) /\ RLeq(lo, x) /\ RLeq(x, hi)

\* the least and the greatest input value of component i
MinInput(c, i) ==
  LET S == {c.int_pt_quantities[int_pt][i] : int_pt \in 0..7}
  IN  CHOOSE m \in S : \A x \in S : RLeq(m, x)
MaxInput(c, i) ==
  LET S == {c.int_pt_quantities[int_pt][i] : int_pt \in 0..7}
  IN  CHOOSE m \in S : \A x \in S : RLeq(x, m)

\* C1: a call that builds a Jacobian whose determinant is within the threshold
\* of zero ends in DegenerateGeometry; nothing is written from the failing
\* integration point on
C1_DegenerateGeometryPropagates ==
  (pc = "returned" /\ call.op \in InvertingOps /\ ~Invertible(call)) =>
    /\ out.status = "DegenerateGeometry"
    /\ out.buf.lumped_mass = pre.lumped_mass
    /\ out.buf.consistent_mass_matrix = pre.consistent_mass_matrix
    /\ out.buf.node_forces = pre.node_forces
    /\ out.buf.vol_ave_quantity = pre.vol_ave_quantity
    /\ \A int_pt \in FirstDegenerate(call)..7 :
         out.buf.deformation_gradients[int_pt] = pre.deformation_gradients[int_pt]

C1_Witness ==
  /\ Called("ComputeDeformationGradients")
  /\ ~Invertible(call)
  /\ FirstDegenerate(call) > 0
  /\ out.status = "DegenerateGeometry"
  /\ out.buf.deformation_gradients[0] # pre.deformation_gradients[0]

\* C2: when the displacement is (s-1) times the invertible reference
\* coordinates, the deformation gradient written at each of the 8 integration
\* points is s times the identity
C2_DilationGivesScaledIdentity ==
  Called("ComputeDeformationGradients") =>
    \A s \in Scales :
      (/\ Invertible(call)
       /\ call.node_displacements =
            Displacement(call.node_reference_coords, <<"dilate", s>>)) =>
        /\ out.status = "ok"
        /\ \A int_pt \in 0..7, c \in 0..8 :
             out.buf.deformation_gradients[int_pt][c] =
               IF c \in {K_F_XX_, K_F_YY_, K_F_ZZ_} THEN I(s) ELSE Zero

C2_Witness ==
  /\ Called("ComputeDeformationGradients")
  /\ Invertible(call)
  /\ call.node_displacements = Displacement(call.node_reference_coords, <<"dilate", 2>>)
  /\ pre.deformation_gradients[7][K_F_YY_] = I(5)
  /\ out.buf.deformation_gradients[7][K_F_YY_] = I(2)
  /\ out.buf.deformation_gradients[7][K_F_YX_] = Zero

\* C3: with all stress components zero on an invertible geometry, every
\* component of every nodal force written is zero
C3_ZeroStressGivesZeroForce ==
  (/\ Called("ComputeNodalForces")
   /\ call.int_pt_stresses = Stress("zero")
   /\ Invertible(call)) =>
    /\ out.status = "ok"
    /\ \A node \in 0..7, k \in 0..2 : out.buf.node_forces[node][k] = Zero

C3_Witness ==
  /\ Called("ComputeNodalForces")
  /\ call.int_pt_stresses = Stress("zero")
  /\ Invertible(call)
  /\ pre.node_forces[3][1] = I(5)
  /\ out.buf.node_forces[3][1] = Zero

C5_ConstantFieldAveragesToConstant ==
  (Called("ComputeVolumeAverage") /\ NonDegenerate(call)) =>
    /\ out.status = "ok"
    /\ \A i \in 0..(call.num_quantities - 1) :
         (\A int_pt \in 0..7 :
            call.int_pt_quantities[int_pt][i] = call.int_pt_quantities[0][i])
         => out.buf.vol_ave_quantity[i] = call.int_pt_quantities[0][i]

C5_Witness ==
  /\ Called("ComputeVolumeAverage")
  /\ NonDegenerate(call)
  /\ call.num_quantities = 9
  /\ call.int_pt_quantities = Field("constant", 9)
  /\ JacobianDet(call, 0) # JacobianDet(call, 7)
  /\ pre.vol_ave_quantity[8] = I(5)
  /\ out.buf.vol_ave_quantity[8] = Mk(13, 0, 2)

\* C6 as stated: in every call of the volume averaging that returns, each
\* averaged component lies between the least and the greatest input value
C6_EveryCallWithinRange ==
  (Called("ComputeVolumeAverage") /\ out.status = "ok") =>
    \A i \in 0..(call.num_quantities - 1) :
      Between(out.buf.vol_ave_quantity[i], MinInput(call, i), MaxInput(call, i))

\* C6: in every call of the volume averaging that returns and whose eight
\* Jacobian determinants have one sign, each averaged component lies between
\* the least and the greatest input value
C6_SameSignWithinRange ==
  (Called("ComputeVolumeAverage") /\ out.status = "ok" /\ SameSign(call)) =>
    \A i \in 0..(call.num_quantities - 1) :
      Between(out.buf.vol_ave_quantity[i], MinInput(call, i), MaxInput(call, i))

C6_Witness ==
  /\ Called("ComputeVolumeAverage")
  /\ out.status = "ok"
  /\ SameSign(call)
  /\ call.int_pt_quantities = Field("upper", 6)
  /\ RLess(MinInput(call, 5), out.buf.vol_ave_quantity[5])
  /\ RLess(out.buf.vol_ave_quantity[5], MaxInput(call, 5))
  /\ out.buf.vol_ave_quantity[5] # I(3)

\* C7: on an invertible geometry the 8 lumped masses sum to the density times
\* the element volume, the sum of weight times determinant
C7_LumpedMassSumsToDensityTimesVolume ==
  (Called("ComputeLumpedMass") /\ Invertible(call)) =>
    /\ out.status = "ok"
    /\ LET D == JacobianDets(call)
       IN  RSum8(out.buf.lumped_mass) =
             RMul(I(call.density),
                  RSum8([int_pt \in 0..7 |-> RMul(int_wts_[int_pt], D[int_pt])]))

C7_Witness ==
  /\ Called("ComputeLumpedMass")
  /\ Invertible(call)
  /\ call.density = 2
  /\ out.buf.lumped_mass[0] # out.buf.lumped_mass[6]
  /\ RLess(I(8), RSum8(out.buf.lumped_mass))

\* the output of thread t's call run on its own
Sequential(th) ==
  ComputeNodalForces_impl(th.node_reference_coords, th.node_displacements,
                          th.int_pt_stresses, th.node_forces)

\* C8: in every interleaving a call ends with the output of the same call run
\* on its own, a step of one call leaves the other calls' buffers and locals
\* alone, and the tables never change
C8_ConcurrentCallsIndependent ==
  [][/\ tables' = tables
     /\ \A t \in Threads :
          threads'[t] # threads[t] =>
            /\ \A u \in Threads \ {t} :
                 /\ threads'[u] = threads[u]
                 /\ locals'[LocalSlot(u)] = locals[LocalSlot(u)]
            /\ (threads[t].pc = "running" /\ threads'[t].pc = "done") =>
                 /\ Sequential(threads[t]).status = "ok"
                 /\ threads'[t].node_forces = Sequential(threads[t]).node_forces
            /\ (threads[t].pc = "running" /\ threads'[t].pc = "failed") =>
                 /\ Sequential(threads[t]).status = "DegenerateGeometry"
                 /\ threads'[t].node_forces = Sequential(threads[t]).node_forces]_vars

C8_Witness ==
  /\ threads[1].pc = "running"
  /\ threads[1].int_pt = 5
  /\ threads[2].pc = "done"
  /\ threads[2].node_forces # Buffers(5).node_forces
  /\ locals[LocalSlot(1)].force # locals[LocalSlot(2)].force

\* C9: the three queries return 3, 8 and 8 and never fail
C9_ConstantQueries ==
  pc = "returned" =>
    /\ call.op = "Dim" => (out.status = "ok" /\ out.ret = 3)
    /\ call.op = "NumNodesPerElement" => (out.status = "ok" /\ out.ret = 8)
    /\ call.op = "NumIntegrationPointsPerElement" => (out.status = "ok" /\ out.ret = 8)

C9_Witness == Called("Dim") /\ out.status = "ok" /\ out.ret = 3

\* C10: on an invertible geometry every row i of the consistent mass matrix
\* sums to the sum over the integration points of
\* weight * density * shapeValue_i * determinant, and the 8 shape values at
\* every integration point sum to 1
C10_ConsistentRowsSumToLumped ==
  (Called("ComputeConsistentMass") /\ Invertible(call)) =>
    /\ out.status = "ok"
    /\ \A int_pt \in 0..7 :
         RSum8([n \in 0..7 |-> shape_fcn_vals_[int_pt * num_nodes_ + n]]) = One
    /\ LET D == JacobianDets(call)
       IN  \A i \in 0..7 :
             RSum8(out.buf.consistent_mass_matrix[i]) =
               RSum8([int_pt \in 0..7 |->
                        RMul(RMul(RMul(int_wts_[int_pt], I(call.density)),
                                  shape_fcn_vals_[int_pt * num_nodes_ + i]),
                             D[int_pt])])

C10_Witness ==
  /\ Called("ComputeConsistentMass")
  /\ Invertible(call)
  /\ call.density = 2
  /\ pre.consistent_mass_matrix[2][5] = I(5)
  /\ out.buf.consistent_mass_matrix[2][5] # out.buf.consistent_mass_matrix[2][2]
  /\ out.buf.consistent_mass_matrix[2][5] = out.buf.consistent_mass_matrix[5][2]

\* the product of the current-configuration matrix and the inverse of the
\* reference-configuration matrix at int_pt, from the inputs of the call c
DeformationGradientAt(c, int_pt) ==
  LET a == CurrentJacobian(c.node_reference_coords, c.node_displacements, int_pt)
      b_inv == Invert3x3(ReferenceJacobian(c.node_reference_coords, int_pt), ZeroMat3).inv
  IN  Array3x3([j \in 0..2 |-> [k \in 0..2 |->
                  RSum8([m \in 0..7 |-> IF m < 3 THEN RMul(a[j][m], b_inv[m][k])
                                                 ELSE Zero])]])

\* C11: a call of ComputeDeformationGradients that completes has written, at
\* each of the 8 integration points, entry F[j][k] of (current-configuration
\* matrix times inverse reference matrix) into its slot of the order
\* [XX,YY,ZZ,XY,YZ,ZX,YX,ZY,XZ] = 0..8; the nine slots written are pairwise
\* distinct and are all of 0..8
C11_NineSlotsWrittenOnce ==
  /\ <<K_F_XX_, K_F_YY_, K_F_ZZ_, K_F_XY_, K_F_YZ_, K_F_ZX_, K_F_YX_, K_F_ZY_, K_F_XZ_>>
       = <<0, 1, 2, 3, 4, 5, 6, 7, 8>>
  /\ \A m \in 1..9, n \in 1..9 :
       m # n => DeformationGradientSlots[m] # DeformationGradientSlots[n]
  /\ {DeformationGradientSlots[n] : n \in 1..9} = 0..8
  /\ (Called("ComputeDeformationGradients") /\ out.status = "ok") =>
       \A int_pt \in 0..7 :
         LET F == DeformationGradientAt(call, int_pt)
         IN  /\ DOMAIN out.buf.deformation_gradients[int_pt] = 0..8
             /\ \A n \in 1..9 :
                  out.buf.deformation_gradients[int_pt][DeformationGradientSlots[n]]
                    = F[(n - 1) \div 3][(n - 1) % 3]

C11_Witness ==
  /\ Called("ComputeDeformationGradients")
  /\ out.status = "ok"
  /\ call.node_displacements = Displacement(call.node_reference_coords, <<"shear", 1>>)
  /\ \A c \in 0..8 : pre.deformation_gradients[7][c] = I(5)
  /\ out.buf.deformation_gradients[7][K_F_XY_] # out.buf.deformation_gradients[7][K_F_YX_]
  /\ \A c \in 0..8 : out.buf.deformation_gradients[7][c] # I(5)

\* the stress view with the three slots of the full order added, holding 7
WithExtraSlots(int_pt_stresses) ==
  Array8xN([p \in 0..7 |-> [c \in 0..8 |->
              IF c \in DOMAIN int_pt_stresses[p] THEN int_pt_stresses[p][c] ELSE I(7)]], 9)

\* C12: every index constant of the symmetric order, the aliases YX = XY,
\* ZY = YZ, XZ = ZX included, is in 0..5; ComputeNodalForces reads the stress
\* at indices 0..5 only, so slots 6..8 of the view do not reach its output; a
\* call of the volume averaging with num_quantities = n that completes has
\* written the averages to slots 0..n-1 and left the slots from n on as they were
C12_SymmetricSlotsOnly ==
  /\ {K_S_XX_, K_S_YY_, K_S_ZZ_, K_S_XY_, K_S_YZ_, K_S_ZX_, K_S_YX_, K_S_ZY_, K_S_XZ_}
       \subseteq 0..5
  /\ K_S_YX_ = K_S_XY_ /\ K_S_ZY_ = K_S_YZ_ /\ K_S_XZ_ = K_S_ZX_
  /\ StressSlotsRead \subseteq 0..5
  /\ Called("ComputeNodalForces") =>
       out.buf.node_forces =
         ComputeNodalForces_impl(call.node_reference_coords, call.node_displacements,
                                 WithExtraSlots(call.int_pt_stresses),
                                 pre.node_forces).node_forces
  /\ (Called("ComputeVolumeAverage") /\ out.status = "ok") =>
       LET D == JacobianDets(call)
       IN  /\ DOMAIN out.buf.vol_ave_quantity = 0..8
           /\ \A i \in 0..8 :
                out.buf.vol_ave_quantity[i] =
                  IF i < call.num_quantities
                    THEN RDiv(RSum8([int_pt \in 0..7 |->
                                       RMul(RMul(call.int_pt_quantities[int_pt][i],
                                                 int_wts_[int_pt]), D[int_pt])]),
                              RSum8(D))
                    ELSE pre.vol_ave_quantity[i]

C12_Witness ==
  /\ Called("ComputeVolumeAverage")
  /\ out.status = "ok"
  /\ call.num_quantities = 6
  /\ \A i \in 0..8 : pre.vol_ave_quantity[i] = I(5)
  /\ \A i \in 0..5 : out.buf.vol_ave_quantity[i] # I(5)
  /\ \A i \in 6..8 : out.buf.vol_ave_quantity[i] = I(5)

\* C13: the nodal forces ComputeNodalForces writes, and whether it fails, are
\* the same for every order in which the loop visits the 8 integration points
C13_VisitOrderIrrelevant ==
  Called("ComputeNodalForces") =>
    \A order \in VisitOrders :
      /\ NodalForcesInOrder(call.node_reference_coords, call.node_displacements,
                            call.int_pt_stresses, pre.node_forces, order).status
           = out.status
      /\ NodalForcesInOrder(call.node_reference_coords, call.node_displacements,
                            call.int_pt_stresses, pre.node_forces, order).node_forces
           = out.buf.node_forces

C13_Witness ==
  /\ Called("ComputeNodalForces")
  /\ out.status = "ok"
  /\ call.int_pt_stresses = Stress("varying")
  /\ JacobianDet(call, 0) # JacobianDet(call, 7)
  /\ out.buf.node_forces[0][0] # Zero
  /\ out.buf.node_forces[0][0] # out.buf.node_forces[6][0]
  /\ NodalForcesInOrder(call.node_reference_coords, call.node_displacements,
                        call.int_pt_stresses, pre.node_forces,
                        <<7, 6, 5, 4, 3, 2, 1, 0>>).node_forces = out.buf.node_forces

\* an output view that holds a force before the call, for example a contact force
ContactForces == Array8x3([node \in 0..7 |-> [k \in 0..2 |-> I(node + k + 1)]])

\* C14: after a call of ComputeNodalForces that completes, each of the 24
\* entries is the negated sum over the integration points of the node's
\* stress-divergence contribution times determinant times weight, whatever the
\* output view held before; a force that was in the view is not kept
C14_ForcesOverwriteOutput ==
  (Called("ComputeNodalForces") /\ out.status = "ok") =>
    LET R == Array8([int_pt \in 0..7 |->
                       Invert3x3(CurrentJacobian(call.node_reference_coords,
                                                 call.node_displacements, int_pt),
                                 ZeroMat3)])
    IN  /\ \A node \in 0..7, k \in 0..2 :
             out.buf.node_forces[node][k] =
               RNeg(RSum8([int_pt \in 0..7 |->
                             NodalForceContribution(R[int_pt].inv, R[int_pt].det,
                                                    call.int_pt_stresses, int_pt,
                                                    node)[k]]))
        /\ ComputeNodalForces_impl(call.node_reference_coords, call.node_displacements,
                                   call.int_pt_stresses, ContactForces).node_forces
             = out.buf.node_forces

C14_Witness ==
  /\ Called("ComputeNodalForces")
  /\ out.status = "ok"
  /\ call.int_pt_stresses = Stress("pressure")
  /\ \A node \in 0..7, k \in 0..2 : pre.node_forces[node][k] = I(5)
  /\ \A node \in 0..7, k \in 0..2 :
       out.buf.node_forces[node][k] \notin {Zero, I(5)}

\* C15: every call of ComputeContactForce makes exactly one call of
\* ComputeSerialContactForce, with the same step, debug_output and
\* contact_force view; the buffers change only as that call leaves them; the
\* serial calls are in the order of the ComputeContactForce calls
C15_ContactForceForwardedOnce ==
  [][contact' # contact =>
       /\ Len(contact'.calls) = Len(contact.calls) + 1
       /\ SubSeq(contact'.calls, 1, Len(contact.calls)) = contact.calls
       /\ Len(contact'.serial_calls) = Len(contact.serial_calls) + 1
       /\ SubSeq(contact'.serial_calls, 1, Len(contact.serial_calls))
            = contact.serial_calls
       /\ Len(contact'.serial_calls) = Len(contact'.calls)
       /\ \A n \in 1..Len(contact'.calls) :
            contact'.serial_calls[n].args = contact'.calls[n]
       /\ \A v \in ForceViews :
            contact'.buffers[v] =
              IF v = contact'.calls[Len(contact'.calls)].contact_force
                THEN contact'.serial_calls[Len(contact'.calls)].left
                ELSE contact.buffers[v]]_vars

C15_Witness ==
  /\ Len(contact.calls) = 2
  /\ Len(contact.serial_calls) = 2
  /\ contact.calls[1] = [step |-> 1, debug_output |-> TRUE, contact_force |-> "view2"]
  /\ contact.calls[2] = [step |-> 0, debug_output |-> FALSE, contact_force |-> "view1"]
  /\ contact.serial_calls[1].args = contact.calls[1]
  /\ contact.serial_calls[2].args = contact.calls[2]
  /\ contact.buffers = [v \in ForceViews |-> 1]

====
